---- MODULE Spec2Model ----
(***************************************************************************)
(* Model of the console scrapers of the XSPF playlist exporter:            *)
(*   - the Squidify auto-collector (click a row, wait for the shared       *)
(*     <audio> element, capture its source),                               *)
(*   - the KHInsider generators V3.2 and V3.3 (fetch each row's track     *)
(*     page, scrape the direct link).                                      *)
(* JavaScript is single threaded: a script runs synchronously up to its    *)
(* next await; timers, media events and fetch completions are tasks that   *)
(* run only when no synchronous code is running.  Time is kept as the      *)
(* remaining delay (ms) of every pending timer, media event and fetch.     *)
(***************************************************************************)
EXTENDS Integers, Sequences, FiniteSets, TLC

\* ---------------------------------------------------------------------
\* Bounds of the model
\* ---------------------------------------------------------------------
MaxSqRows == 4
MaxTrs == 3
MaxDurLen == 5
MaxXmlLen == 3
MaxNameLen == 4
MaxMuItems == 3
MaxTitleLen == 5
MaxParams == 2
MaxRrRows == 2
MaxInbox == 2
MaxExports == 1

\* ---------------------------------------------------------------------
\* Program constants
\* ---------------------------------------------------------------------
RetryDelayMs == 1000
SettleDelayMs == 1000
MetadataTimeoutMs == 12000

\* Inputs of the environment
StreamSrcs == {"https://cdn/stream/a", "https://cdn/stream/b"}
Srcs == StreamSrcs \cup {"", "blob:preview"}
DirectUrls == {"https://vgm/a.mp3", "https://vgm/b.mp3"}

VARIABLES
    script,
    sqRows, sqI, sqPc, capturedTracks, sqSeen, sqSrcKept,
    audioExists, audioSrc, audioDuration,
    listeners, timers, mediaEvents,
    sqArmed, sqReady, sqReadyBy, sqLoadedSeen,
    sqStatus, sqFinal, sqFile,
    khVariant, khTable, khTrs, khI, khPc, khRequests, khAttempts,
    khEntries, khOutcome, khLatency, khStatus, khBlob, khDownload,
    txIn, txOp, txOut, txDur,
    muItems, muI, muPc, muEntries, muStatus, muDownload,
    tabUrl, tabLoading, currentTabInfo, bgInbox, exports, exportsAsked,
    popupOpen, exportBtnDisabled, statusMessage, errorMessage, exporting,
    popupInbox,
    rrRows, rrPc, rrI, rrSrc, rrCaptured, rrPushed, rrFinal

sqVars == <<sqRows, sqI, sqPc, capturedTracks, sqSeen, sqSrcKept,
            audioExists, audioSrc, audioDuration,
            listeners, timers, mediaEvents,
            sqArmed, sqReady, sqReadyBy, sqLoadedSeen,
            sqStatus, sqFinal, sqFile>>

khVars == <<khVariant, khTable, khTrs, khI, khPc, khRequests, khAttempts,
            khEntries, khOutcome, khLatency, khStatus, khBlob, khDownload>>

\* the input, the function applied and the result of the text functions
txVars == <<txIn, txOp, txOut, txDur>>

\* the Musify script
muVars == <<muItems, muI, muPc, muEntries, muStatus, muDownload>>

\* the extension: the tabs running the content script, the background
\* script's variable, the messages sent to it and not yet received, the
\* calls of handleExport, and the number of exports the popup asked for
\* the popup: whether its document is loaded, the disabled attribute of the
\* export button, the text of the status and error areas, whether an
\* exportPlaylist is still unanswered, and the messages sent to it and not
\* yet received
ppVars == <<popupOpen, exportBtnDisabled, statusMessage, errorMessage, exporting,
            popupInbox>>

extVars == <<tabUrl, tabLoading, currentTabInfo, bgInbox, exports, exportsAsked,
             ppVars>>

\* the state of the programs other than the two fetching collectors
\* two runs of the Squidify script on one page: the rows of the page, each
\* run's position, the shared audio source and window.capturedTracks, the
\* records each run pushed, and what each run's finish() exported
rrVars == <<rrRows, rrPc, rrI, rrSrc, rrCaptured, rrPushed, rrFinal>>

restVars == <<txVars, muVars, extVars, rrVars>>

vars == <<script, sqVars, khVars, restVars>>

\* ---------------------------------------------------------------------
\* Helpers
\* ---------------------------------------------------------------------
SeqsUpTo(S, n) == UNION {[1..k -> S] : k \in 0..n}

Range(s) == {s[k] : k \in DOMAIN s}

MinOf(S) == CHOOSE m \in S : \A x \in S : m <= x

\* String.prototype.includes('stream')
IncludesStream(s) == s \in StreamSrcs

\* audio.duration before any metadata is known
NaNDuration == [nan |-> TRUE, val |-> 0]

\* Array.prototype.slice(1)
Slice1(s) == IF Len(s) = 0 THEN <<>> ELSE Tail(s)

\* =====================================================================
\* Squidify auto-collector
\* =====================================================================

SqIdle ==
    /\ sqRows = <<>> /\ sqI = 0 /\ sqPc = "off"
    /\ capturedTracks = <<>> /\ sqSeen = <<>> /\ sqSrcKept = FALSE
    /\ audioExists = FALSE /\ audioSrc = "" /\ audioDuration = NaNDuration
    /\ listeners = {} /\ timers = {} /\ mediaEvents = {}
    /\ sqArmed = {} /\ sqReady = {} /\ sqReadyBy = <<>> /\ sqLoadedSeen = {}
    /\ sqStatus = "READY" /\ sqFinal = <<>> /\ sqFile = FALSE

KhIdle ==
    /\ khVariant = "none" /\ khTable = FALSE /\ khTrs = <<>>
    /\ khI = 0 /\ khPc = "off" /\ khRequests = {} /\ khAttempts = <<>>
    /\ khEntries = <<>> /\ khOutcome = <<>> /\ khLatency = <<>>
    /\ khStatus = "none"
    /\ khBlob = FALSE /\ khDownload = FALSE

NoDuration == [emit |-> FALSE, ms |-> 0]

TxIdle == txIn = <<>> /\ txOp = "off" /\ txOut = <<>> /\ txDur = NoDuration

MuIdle ==
    /\ muItems = <<>> /\ muI = 0 /\ muPc = "off" /\ muEntries = <<>>
    /\ muStatus = "none" /\ muDownload = FALSE

\* `let currentTabInfo = null`
NoInfo == [valid |-> FALSE, tabId |-> 0, url |-> <<>>, type |-> "", site |-> ""]

\* no popup document
PopupClosed ==
    /\ popupOpen = FALSE /\ exportBtnDisabled = TRUE
    /\ statusMessage = "" /\ errorMessage = ""
    /\ exporting = FALSE /\ popupInbox = <<>>

ExtIdle ==
    /\ tabUrl = <<>> /\ tabLoading = <<>> /\ currentTabInfo = NoInfo
    /\ bgInbox = <<>> /\ exports = <<>> /\ exportsAsked = 0
    /\ PopupClosed

RrIdle ==
    /\ rrRows = 0 /\ rrPc = <<>> /\ rrI = <<>> /\ rrSrc = ""
    /\ rrCaptured = <<>> /\ rrPushed = <<>> /\ rrFinal = <<>>

RestIdle == TxIdle /\ MuIdle /\ ExtIdle /\ RrIdle

\* rows[i].querySelector('button'), i a JavaScript index
HasBtn(i) == sqRows[i + 1]

InitSq ==
    /\ script = "squidify"
    /\ sqRows \in SeqsUpTo(BOOLEAN, MaxSqRows)
    /\ sqI = 1
    /\ sqPc = "start"
    /\ capturedTracks = <<>>
    /\ sqSeen = <<>>
    /\ sqSrcKept = FALSE
    /\ \E a \in {<<FALSE, "">>, <<TRUE, "">>, <<TRUE, "https://cdn/stream/a">>} :
          audioExists = a[1] /\ audioSrc = a[2]
    /\ audioDuration = NaNDuration
    /\ listeners = {} /\ timers = {} /\ mediaEvents = {}
    /\ sqArmed = {} /\ sqReady = {} /\ sqLoadedSeen = {}
    /\ sqReadyBy = [w \in 1..MaxSqRows |-> [kind |-> "none", wait |-> 0]]
    /\ sqStatus = "READY"
    /\ sqFinal = <<>>
    /\ sqFile = FALSE
    /\ KhIdle
    /\ RestIdle

\* the promise returned by waitForMetadata() for row i has resolved
NoAwait(i) == TRUE
WaitResolved(i) == i \in sqReady

\* window.capturedTracks.find(t => t.location === src)
NeverCaptured(tracks, src) == FALSE
AlreadyCaptured(tracks, src) == \E k \in DOMAIN tracks : tracks[k].location = src

\* audio && !isNaN(audio.duration) ? Math.round(audio.duration * 1000) : 0
\* Math.round() of a duration that is kept in 1/10 ms
CapturedDuration(exists, d) == IF exists /\ ~d.nan THEN (d.val + 5) \div 10 ELSE 0

\* the 12 s timer of waitForMetadata
NoTimeoutTimer(w) == {}
TimeoutTimer(w) == {[kind |-> "timeout", wait |-> w, rem |-> MetadataTimeoutMs]}

\* audio.removeEventListener('loadedmetadata', onLoaded) in the 12 s callback
TimeoutKeepsListener(ls, w) == ls
TimeoutListeners(ls, w) == ls \ {w}

\* const final = window.capturedTracks.slice(1)
NoSlice(tracks) == tracks
FinalTracks(tracks) == Slice1(tracks)

\* synchronous code of run() is on the stack or queued as a microtask
SqBusy == sqPc \in {"start", "loop"} \/ (sqPc = "await" /\ WaitResolved(sqI))

SqStart ==
    /\ script = "squidify" /\ sqPc = "start"
    /\ IF Len(sqRows) = 0
         THEN sqStatus' = "ERROR" /\ sqPc' = "done"
         ELSE sqStatus' = sqStatus /\ sqPc' = "loop"
    /\ UNCHANGED <<script, sqRows, sqI, capturedTracks, sqSeen, sqSrcKept, audioExists,
                   audioSrc, audioDuration, listeners, timers, mediaEvents,
                   sqArmed, sqReady, sqReadyBy, sqLoadedSeen, sqFinal, sqFile,
                   khVars, restVars>>

\* a row without a button is passed over
SqSkipRow ==
    /\ script = "squidify" /\ sqPc = "loop"
    /\ sqI < Len(sqRows) /\ ~HasBtn(sqI)
    /\ sqI' = sqI + 1
    /\ UNCHANGED <<script, sqRows, sqPc, capturedTracks, sqSeen, sqSrcKept, audioExists,
                   audioSrc, audioDuration, listeners, timers, mediaEvents,
                   sqArmed, sqReady, sqReadyBy, sqLoadedSeen, sqStatus,
                   sqFinal, sqFile, khVars, restVars>>

\* btn.click() followed by the synchronous part of waitForMetadata().
\* sqSrcKept records that the click left the value of audio.src as it was.
\* The page's click handler may mount the player, and either leaves the
\* source alone or assigns a new one, which aborts the load in progress and
\* starts a new load whose loadedmetadata event arrives after some delay or
\* never.
SqClick ==
    /\ script = "squidify" /\ sqPc = "loop"
    /\ sqI < Len(sqRows) /\ HasBtn(sqI)
    /\ sqStatus' = "PROCESSING"
    /\ \E ex \in {audioExists, TRUE} :
         /\ audioExists' = ex
         /\ \/ UNCHANGED <<audioSrc, audioDuration, mediaEvents>>
            \/ /\ ex
               /\ \E s \in Srcs :
                    /\ audioSrc' = s
                    /\ audioDuration' = NaNDuration
                    /\ \/ mediaEvents' = {}
                       \/ /\ s # ""
                          /\ \E d \in {500, 11500, 12500} : mediaEvents' = {[rem |-> d]}
         /\ IF ~ex
              THEN /\ timers' = timers \cup
                          {[kind |-> "retry", wait |-> sqI, rem |-> RetryDelayMs]}
                   /\ listeners' = listeners
              ELSE /\ listeners' = listeners \cup {sqI}
                   /\ timers' = timers \cup TimeoutTimer(sqI)
    /\ sqArmed' = sqArmed \cup {sqI}
    /\ sqSrcKept' = (audioSrc' = audioSrc)
    /\ sqPc' = "await"
    /\ UNCHANGED <<script, sqRows, sqI, capturedTracks, sqSeen, sqReady,
                   sqReadyBy, sqLoadedSeen, sqFinal, sqFile, khVars, restVars>>

\* continuation of run() after `await waitForMetadata()`
SqResume ==
    /\ script = "squidify" /\ sqPc = "await"
    /\ WaitResolved(sqI)
    /\ LET src == IF audioExists THEN audioSrc ELSE ""
       IN IF src # "" /\ IncludesStream(src)
            THEN /\ sqSeen' = Append(sqSeen, [row |-> sqI, src |-> src])
                 /\ IF ~AlreadyCaptured(capturedTracks, src)
                      THEN capturedTracks' = Append(capturedTracks,
                              [location |-> src,
                               duration |-> CapturedDuration(audioExists, audioDuration)])
                      ELSE capturedTracks' = capturedTracks
            ELSE UNCHANGED <<sqSeen, capturedTracks>>
    /\ sqI' = sqI + 1
    /\ sqPc' = "loop"
    /\ UNCHANGED <<script, sqRows, sqSrcKept, audioExists, audioSrc, audioDuration,
                   listeners, timers, mediaEvents, sqArmed, sqReady, sqReadyBy,
                   sqLoadedSeen, sqStatus, sqFinal, sqFile, khVars, restVars>>

\* finish(), called after the loop
SqFinish ==
    /\ script = "squidify" /\ sqPc = "loop"
    /\ sqI >= Len(sqRows)
    /\ LET final == FinalTracks(capturedTracks)
       IN /\ sqFinal' = final
          /\ IF Len(final) = 0
               THEN sqStatus' = "EMPTY" /\ sqFile' = FALSE
               ELSE sqStatus' = "COMPLETED" /\ sqFile' = TRUE
    /\ sqPc' = "done"
    /\ UNCHANGED <<script, sqRows, sqI, capturedTracks, sqSeen, sqSrcKept, audioExists,
                   audioSrc, audioDuration, listeners, timers, mediaEvents,
                   sqArmed, sqReady, sqReadyBy, sqLoadedSeen, khVars, restVars>>

\* resolve() called from the callback of timer t, for the promise that the
\* callback closes over; a second call is a no-op
Resolve(t) ==
    LET w == t.wait
    IN /\ sqReady' = sqReady \cup {w}
       /\ sqReadyBy' = IF w \in sqReady THEN sqReadyBy
                       ELSE [sqReadyBy EXCEPT ![w] = [kind |-> t.kind, wait |-> t.wait]]

\* a timer of waitForMetadata is due: the callbacks at lines 51, 58 and 64
SqTimerFires ==
    /\ script = "squidify" /\ ~SqBusy
    /\ \E t \in timers :
         /\ t.rem = 0
         /\ timers' = timers \ {t}
         /\ listeners' = IF t.kind = "timeout"
                           THEN TimeoutListeners(listeners, t.wait)
                           ELSE listeners
         /\ Resolve(t)
    /\ UNCHANGED <<script, sqRows, sqI, sqPc, capturedTracks, sqSeen, sqSrcKept,
                   audioExists, audioSrc, audioDuration, mediaEvents, sqArmed,
                   sqLoadedSeen, sqStatus, sqFinal, sqFile, khVars, restVars>>

\* the audio element fires loadedmetadata: onLoaded of every subscribed wait
SqMediaLoaded ==
    /\ script = "squidify" /\ ~SqBusy
    /\ \E e \in mediaEvents :
         /\ e.rem = 0
         /\ mediaEvents' = mediaEvents \ {e}
    /\ \E d \in {1834996} : audioDuration' = [nan |-> FALSE, val |-> d]
    /\ timers' = timers \cup
          {[kind |-> "settle", wait |-> w, rem |-> SettleDelayMs] : w \in listeners}
    /\ sqLoadedSeen' = sqLoadedSeen \cup listeners
    /\ listeners' = {}
    /\ UNCHANGED <<script, sqRows, sqI, sqPc, capturedTracks, sqSeen, sqSrcKept,
                   audioExists, audioSrc, sqArmed, sqReady, sqReadyBy,
                   sqStatus, sqFinal, sqFile, khVars, restVars>>

\* =====================================================================
\* KHInsider generators V3.2 (two copies) and V3.3
\* =====================================================================
Null == "null"
Thrown == "thrown"

\* the filter of playlistTable.querySelectorAll('tr')
IsTrackRow(tr) == tr.link /\ ~tr.th
KhRows == SelectSeq(khTrs, IsTrackRow)

InitKh ==
    /\ script = "khinsider"
    /\ khVariant \in {"V3.2", "V3.3"}
    /\ khTable \in BOOLEAN
    /\ khTrs \in SeqsUpTo([link : BOOLEAN, th : BOOLEAN], MaxTrs)
    /\ ~khTable => khTrs = <<>>
    /\ khI = 0
    /\ khPc = "start"
    /\ khRequests = {}
    /\ khAttempts = [r \in 0..(MaxTrs - 1) |-> 0]
    /\ khOutcome = [r \in 0..(MaxTrs - 1) |-> "none"]
    /\ khLatency = [r \in 0..(MaxTrs - 1) |-> 0]
    /\ khEntries = <<>>
    /\ khStatus = "running"
    /\ khBlob = FALSE
    /\ khDownload = FALSE
    /\ SqIdle
    /\ RestIdle

\* getDirectLink(pageUrl) for each way the fetch of the track page can end:
\* a rejected fetch is caught and gives null, a page without the marker or
\* without an href gives null, otherwise the href of the download anchor
GetDirectLinkUncaught(o) ==
    IF o = "neterr" THEN Thrown ELSE IF o \in DirectUrls THEN o ELSE Null
GetDirectLink(o) == IF o \in DirectUrls THEN o ELSE Null

\* `await getDirectLink(...)` suspends the loop until the fetch has ended
KhNoAwait == FALSE
KhAwaits == TRUE

KhBusy == khPc \in {"start", "loop"}

\* the script body up to the call of processTracks()
KhStart ==
    /\ script = "khinsider" /\ khPc = "start"
    /\ IF ~khTable
         THEN khStatus' = "no table" /\ khPc' = "done"
         ELSE IF khVariant = "V3.3" /\ Len(KhRows) = 0
                THEN khStatus' = "no rows" /\ khPc' = "done"
                ELSE khStatus' = khStatus /\ khPc' = "loop"
    /\ UNCHANGED <<script, sqVars, restVars, khVariant, khTable, khTrs, khI, khRequests,
                   khAttempts, khEntries, khOutcome, khLatency, khBlob,
                   khDownload>>

\* one pass of the loop head down to `await getDirectLink(trackPageUrl)`
KhIssueFetch ==
    /\ script = "khinsider" /\ khPc = "loop"
    /\ khI < Len(KhRows)
    /\ IF ~KhRows[khI + 1].link
         THEN /\ khI' = khI + 1
              /\ UNCHANGED <<khPc, khRequests, khAttempts, khLatency>>
         ELSE /\ khAttempts' = [khAttempts EXCEPT ![khI] = @ + 1]
              /\ \E lat \in {40, 900} :
                    /\ khRequests' = khRequests \cup {[row |-> khI, rem |-> lat]}
                    /\ khLatency' = [khLatency EXCEPT ![khI] = lat]
              /\ IF KhAwaits
                   THEN khPc' = "await" /\ khI' = khI
                   ELSE khPc' = khPc /\ khI' = khI + 1
    /\ UNCHANGED <<script, sqVars, restVars, khVariant, khTable, khTrs, khEntries,
                   khOutcome, khStatus, khBlob, khDownload>>

\* the fetch of a row's track page ends; the rest of the loop body runs
KhFetchReturns ==
    /\ script = "khinsider" /\ ~KhBusy
    /\ \E r \in khRequests :
         /\ r.rem = 0
         /\ khRequests' = khRequests \ {r}
         /\ \E o \in ({"neterr", "nomarker", "nohref"} \cup DirectUrls) :
              LET link == GetDirectLink(o)
              IN /\ khOutcome' = [khOutcome EXCEPT ![r.row] = o]
                 /\ IF link = Thrown
                      THEN /\ khPc' = "rejected"
                           /\ UNCHANGED <<khEntries, khI>>
                      ELSE /\ khEntries' =
                                IF link = Null THEN khEntries
                                ELSE Append(khEntries,
                                       [location |-> link, trackNum |-> r.row + 1])
                           /\ IF khPc = "await" /\ r.row = khI
                                THEN khPc' = "loop" /\ khI' = khI + 1
                                ELSE UNCHANGED <<khPc, khI>>
    /\ UNCHANGED <<script, sqVars, restVars, khVariant, khTable, khTrs, khAttempts,
                   khLatency, khStatus, khBlob, khDownload>>

\* the code after the loop: assemble the document and trigger the download
KhFinish ==
    /\ script = "khinsider" /\ khPc = "loop"
    /\ khI >= Len(KhRows)
    /\ IF khVariant = "V3.2" /\ Len(khEntries) = 0
         THEN khStatus' = "no tracks" /\ UNCHANGED <<khBlob, khDownload>>
         ELSE khStatus' = "success" /\ khBlob' = TRUE /\ khDownload' = TRUE
    /\ khPc' = "done"
    /\ UNCHANGED <<script, sqVars, restVars, khVariant, khTable, khTrs, khI, khRequests,
                   khAttempts, khEntries, khOutcome, khLatency>>

\* =====================================================================
\* Time
\* =====================================================================
Pending == {t.rem : t \in timers} \cup {e.rem : e \in mediaEvents}
              \cup {r.rem : r \in khRequests}

\* the event loop is idle until the next timer, media event or response
Advance ==
    /\ ~SqBusy /\ ~KhBusy
    /\ Pending # {} /\ 0 \notin Pending
    /\ LET d == MinOf(Pending)
       IN /\ timers' = {[t EXCEPT !.rem = @ - d] : t \in timers}
          /\ mediaEvents' = {[e EXCEPT !.rem = @ - d] : e \in mediaEvents}
          /\ khRequests' = {[r EXCEPT !.rem = @ - d] : r \in khRequests}
    /\ UNCHANGED <<script, sqRows, sqI, sqPc, capturedTracks, sqSeen, sqSrcKept,
                   audioExists, audioSrc, audioDuration, listeners,
                   sqArmed, sqReady, sqReadyBy, sqLoadedSeen,
                   sqStatus, sqFinal, sqFile,
                   khVariant, khTable, khTrs, khI, khPc, khAttempts,
                   khEntries, khOutcome, khLatency, khStatus, khBlob,
                   khDownload, restVars>>

\* =====================================================================
\* Text functions: duration parsing, XML escaping, file names.
\* A text is a sequence of one-character strings.
\* =====================================================================
DigitChars == <<"0", "1", "2", "3", "4", "5", "6", "7", "8", "9">>
IsDigit(c) == \E d \in DOMAIN DigitChars : DigitChars[d] = c
DigitVal(c) == (CHOOSE d \in DOMAIN DigitChars : DigitChars[d] = c) - 1
AllDigits(s) == \A k \in DOMAIN s : IsDigit(s[k])

RECURSIVE SplitOn(_, _)
\* String.prototype.split(sep) for a one-character separator
SplitOn(s, sep) ==
    IF \A k \in DOMAIN s : s[k] # sep THEN <<s>>
    ELSE LET k == MinOf({j \in DOMAIN s : s[j] = sep})
         IN <<SubSeq(s, 1, k - 1)>> \o SplitOn(SubSeq(s, k + 1, Len(s)), sep)

RECURSIVE NumberOf(_)
\* Number(str) for a string of decimal digits
NumberOf(s) ==
    IF s = <<>> THEN 0
    ELSE 10 * NumberOf(SubSeq(s, 1, Len(s) - 1)) + DigitVal(s[Len(s)])

\* the longest prefix of s made of digits
DigitPrefix(s) ==
    LET n == IF AllDigits(s) THEN Len(s)
             ELSE MinOf({k \in DOMAIN s : ~IsDigit(s[k])}) - 1
    IN SubSeq(s, 1, n)

\* parseInt(str, 10): optional sign, then the leading digits; NaN without them
ParseInt(s) ==
    LET neg == s # <<>> /\ s[1] = "-"
        body == IF s # <<>> /\ s[1] \in {"-", "+"} THEN Tail(s) ELSE s
        ds == DigitPrefix(body)
    IN IF ds = <<>> THEN [nan |-> TRUE, val |-> 0]
       ELSE [nan |-> FALSE, val |-> IF neg THEN 0 - NumberOf(ds) ELSE NumberOf(ds)]

\* /^\d+:\d+(:\d+)?$/.test(text)
MatchesDuration(s) ==
    LET parts == SplitOn(s, ":")
    IN /\ Len(parts) \in {2, 3}
       /\ \A k \in DOMAIN parts : parts[k] # <<>> /\ AllDigits(parts[k])

\* KHInsider V3.2: the duration cell, parts.map(Number), the two length tests
\* and the `durationMs > 0 ? <duration> : ''` of the entry
KhDurationV32(text) ==
    LET parts == SplitOn(text, ":")
        n(k) == NumberOf(parts[k])
        ms == IF ~MatchesDuration(text) THEN 0
              ELSE IF Len(parts) = 2 THEN (n(1) * 60 + n(2)) * 1000
              ELSE IF Len(parts) = 3 THEN (n(1) * 3600 + n(2) * 60 + n(3)) * 1000
              ELSE 0
    IN [emit |-> ms > 0, ms |-> ms]

\* KHInsider V3.3: the same with a single conditional expression
KhDurationV33(text) ==
    LET parts == SplitOn(text, ":")
        n(k) == NumberOf(parts[k])
        ms == IF ~MatchesDuration(text) THEN 0
              ELSE IF Len(parts) = 2 THEN (n(1) * 60 + n(2)) * 1000
              ELSE (n(1) * 3600 + n(2) * 60 + n(3)) * 1000
    IN [emit |-> ms > 0, ms |-> ms]

\* Musify: split(':'), two parts only, parseInt of each, -1 meaning unknown,
\* `<duration>${durationInSeconds * 1000}</duration>` unless it is -1
MusifyDuration(text) ==
    LET timeParts == SplitOn(text, ":")
        minutes == ParseInt(timeParts[1])
        seconds == ParseInt(timeParts[2])
        durationInSeconds ==
            IF Len(timeParts) = 2 /\ ~minutes.nan /\ ~seconds.nan
              THEN minutes.val * 60 + seconds.val
              ELSE 0 - 1
    IN [emit |-> durationInSeconds # 0 - 1, ms |-> durationInSeconds * 1000]


InitDur ==
    /\ script = "duration"
    /\ txIn \in SeqsUpTo({"0", "7", ":", "-", "x"}, MaxDurLen)
    /\ txOp = "none" /\ txOut = <<>> /\ txDur = NoDuration
    /\ SqIdle /\ KhIdle /\ RrIdle /\ MuIdle /\ ExtIdle

DurKhV32 ==
    /\ script = "duration" /\ txOp = "none"
    /\ txOp' = "khV32"
    /\ txDur' = KhDurationV32(txIn)
    /\ UNCHANGED <<script, sqVars, khVars, rrVars, muVars, extVars, txIn, txOut>>

DurKhV33 ==
    /\ script = "duration" /\ txOp = "none"
    /\ txOp' = "khV33"
    /\ txDur' = KhDurationV33(txIn)
    /\ UNCHANGED <<script, sqVars, khVars, rrVars, muVars, extVars, txIn, txOut>>

DurMusify ==
    /\ script = "duration" /\ txOp = "none"
    /\ txOp' = "musify"
    /\ txDur' = MusifyDuration(txIn)
    /\ UNCHANGED <<script, sqVars, khVars, rrVars, muVars, extVars, txIn, txOut>>

RECURSIVE Flatten(_)
\* concatenation of a sequence of texts
Flatten(ss) == IF ss = <<>> THEN <<>> ELSE Head(ss) \o Flatten(Tail(ss))

Amp == <<"&", "a", "m", "p", ";">>
Apos == <<"&", "a", "p", "o", "s", ";">>
Quot == <<"&", "q", "u", "o", "t", ";">>
XmlSpecials == {"<", ">", "&", "'", "\""}

\* the switch of escapeXml in utils.js and in the background script
ExtEntity(c) ==
    CASE c = "<" -> <<"<">>
      [] c = ">" -> <<">">>
      [] c = "&" -> Amp
      [] c = "'" -> Apos
      [] c = "\"" -> Quot
      [] OTHER -> <<c>>

\* the characters /[<>&'"]/g matches are replaced by what the callback returns
EscapeXmlExt(unsafe) ==
    Flatten([k \in DOMAIN unsafe |->
        IF unsafe[k] \in XmlSpecials THEN ExtEntity(unsafe[k]) ELSE <<unsafe[k]>>])

\* the switch of escapeXml in the YouTube script
YtEntity(c) ==
    CASE c = "<" -> <<"<">>
      [] c = ">" -> <<">">>
      [] c = "&" -> <<"&">>
      [] c = "'" -> <<>>
      [] c = "\"" -> <<"\"">>

EscapeXmlYt(unsafe) ==
    Flatten([k \in DOMAIN unsafe |->
        IF unsafe[k] \in XmlSpecials THEN YtEntity(unsafe[k]) ELSE <<unsafe[k]>>])

\* text.replace(/&/g, '&amp;') of the KHInsider scripts
EscapeAmpKh(text) ==
    Flatten([k \in DOMAIN text |-> IF text[k] = "&" THEN Amp ELSE <<text[k]>>])


InitEsc ==
    /\ script = "escape"
    /\ txIn \in SeqsUpTo({"a", "&", "<", ">", "'", "\""}, MaxXmlLen)
    /\ txOp = "none" /\ txOut = <<>> /\ txDur = NoDuration
    /\ SqIdle /\ KhIdle /\ RrIdle /\ MuIdle /\ ExtIdle

EscExt ==
    /\ script = "escape" /\ txOp = "none"
    /\ txOp' = "ext"
    /\ txOut' = EscapeXmlExt(txIn)
    /\ UNCHANGED <<script, sqVars, khVars, rrVars, muVars, extVars, txIn, txDur>>

EscYoutube ==
    /\ script = "escape" /\ txOp = "none"
    /\ txOp' = "youtube"
    /\ txOut' = EscapeXmlYt(txIn)
    /\ UNCHANGED <<script, sqVars, khVars, rrVars, muVars, extVars, txIn, txDur>>

EscKh ==
    /\ script = "escape" /\ txOp = "none"
    /\ txOp' = "kh"
    /\ txOut' = EscapeAmpKh(txIn)
    /\ UNCHANGED <<script, sqVars, khVars, rrVars, muVars, extVars, txIn, txDur>>

UnsafeChars == {"\\", "/", ":", "*", "?", "\"", "<", ">", "|"}

\* title.replace(/[\\/:*?"<>|]/g, '_')
ReplaceFirstUnsafe(s) ==
    [k \in DOMAIN s |->
        IF s[k] \in UnsafeChars /\ \A j \in 1..(k - 1) : s[j] \notin UnsafeChars
          THEN "_" ELSE s[k]]
ReplaceUnsafe(s) == [k \in DOMAIN s |-> IF s[k] \in UnsafeChars THEN "_" ELSE s[k]]

XspfExt == <<".", "x", "s", "p", "f">>
KhTag == <<" ", "[", "K", "h", "i", "n", "s", "i", "d", "e", "r", "]">>
SqTag == <<" ", "[", "S", "q", "u", "i", "d", "i", "f", "y", ".", "o", "r", "g", "]">>

\* albumTitle: the trimmed text of the h2, or the default when it is empty
KhAlbumTitle(h2) ==
    IF h2 = <<>>
      THEN <<"U", "n", "k", "n", "o", "w", "n", " ", "A", "l", "b", "u", "m">>
      ELSE h2

\* sanitizedFilename of the KHInsider scripts
KhFilename(albumTitle) == ReplaceUnsafe(albumTitle) \o KhTag \o XspfExt

\* a.download of the Squidify finish()
SqFilename(playlistTitle) == ReplaceUnsafe(playlistTitle) \o SqTag \o XspfExt


InitName ==
    /\ script = "filename"
    /\ txIn \in SeqsUpTo({"a", "B", " ", ":", "?", "\"", "/"}, MaxNameLen)
    /\ txOp = "none" /\ txOut = <<>> /\ txDur = NoDuration
    /\ SqIdle /\ KhIdle /\ RrIdle /\ MuIdle /\ ExtIdle

NameKh ==
    /\ script = "filename" /\ txOp = "none"
    /\ txOp' = "kh"
    /\ txOut' = KhFilename(KhAlbumTitle(txIn))
    /\ UNCHANGED <<script, sqVars, khVars, rrVars, muVars, extVars, txIn, txDur>>

NameSq ==
    /\ script = "filename" /\ txOp = "none"
    /\ txOp' = "squidify"
    /\ txOut' = SqFilename(txIn)
    /\ UNCHANGED <<script, sqVars, khVars, rrVars, muVars, extVars, txIn, txDur>>

\* =====================================================================
\* YouTube script: artist and title of a video.
\* A title is a sequence of pieces: words, the separator " - ", a digit,
\* a full stop.
\* =====================================================================
TitleSep == " - "
TopicSuffix == <<TitleSep, "Topic">>

\* the end of the run of digits that starts at piece k (k - 1 if none)
DigitsEnd(t, k) ==
    IF \A j \in k..Len(t) : IsDigit(t[j]) THEN Len(t)
    ELSE MinOf({j \in k..Len(t) : ~IsDigit(t[j])}) - 1

\* /^(.+?)\s*-\s*\d+\s*[.-]\s*(.+)$/ matches with p pieces in the first group
RegexMatchesAt(t, p) ==
    /\ p >= 1 /\ p + 1 <= Len(t)
    /\ t[p + 1] = TitleSep
    /\ LET q == DigitsEnd(t, p + 2)
       IN /\ q >= p + 2
          /\ q + 2 <= Len(t)
          /\ t[q + 1] \in {".", TitleSep}

\* title.match(regex): the lazy first group takes the fewest pieces
RegexMatch(t) ==
    LET ps == {p \in 1..Len(t) : RegexMatchesAt(t, p)}
    IN IF ps = {} THEN [matched |-> FALSE, g1 |-> <<>>, g2 |-> <<>>]
       ELSE LET p == MinOf(ps)
                q == DigitsEnd(t, p + 2)
            IN [matched |-> TRUE, g1 |-> SubSeq(t, 1, p),
                g2 |-> SubSeq(t, q + 2, Len(t))]

\* artist.endsWith(' - Topic')
EndsWithTopic(a) == Len(a) >= 2 /\ SubSeq(a, Len(a) - 1, Len(a)) = TopicSuffix

\* the body of the forEach callback that sets artist and title.
\* title.split(' - ', 2) makes all the pieces between separators and keeps
\* two of them; artist.replace(' - Topic', '') removes the first occurrence.
ParseVideo(isAlbum, author, videoTitle) ==
    LET title0 == IF videoTitle = <<>> THEN <<"Unknown Title">> ELSE videoTitle
        artist0 == IF author = <<>> THEN <<"Unknown Artist">> ELSE author
        match == RegexMatch(title0)
        pieces == SplitOn(title0, TitleSep)
        parts == IF Len(pieces) > 2 THEN SubSeq(pieces, 1, 2) ELSE pieces
        RemoveTopic(a) ==
            LET k == MinOf({j \in 1..(Len(a) - 1) : SubSeq(a, j, j + 1) = TopicSuffix})
            IN SubSeq(a, 1, k - 1) \o SubSeq(a, k + 2, Len(a))
        parsed ==
            IF ~isAlbum /\ ~EndsWithTopic(artist0)
              THEN IF match.matched THEN [artist |-> match.g1, title |-> match.g2]
                   ELSE IF Len(parts) = 2 THEN [artist |-> parts[1], title |-> parts[2]]
                   ELSE [artist |-> artist0, title |-> title0]
              ELSE [artist |-> artist0, title |-> title0]
    IN [artist |-> IF EndsWithTopic(parsed.artist) THEN RemoveTopic(parsed.artist)
                   ELSE parsed.artist,
        title |-> parsed.title]

InitTitle ==
    /\ script = "title"
    /\ txIn \in {<<au, ti>> :
                    au \in {<<"X">>, <<"X", TitleSep, "Topic">>, <<>>},
                    ti \in SeqsUpTo({"a", "b", TitleSep, "1", "."}, MaxTitleLen)}
    /\ txOp = "none" /\ txOut = <<>> /\ txDur = NoDuration
    /\ SqIdle /\ KhIdle /\ RrIdle /\ MuIdle /\ ExtIdle

TitleParse ==
    /\ script = "title" /\ txOp = "none"
    /\ \E isAlbum \in BOOLEAN :
          /\ txOp' = IF isAlbum THEN "album" ELSE "playlist"
          /\ LET r == ParseVideo(isAlbum, txIn[1], txIn[2])
             IN txOut' = <<r.artist, r.title>>
    /\ UNCHANGED <<script, sqVars, khVars, rrVars, muVars, extVars, txIn, txDur>>

\* =====================================================================
\* Musify script: one pass over the .playlist__item rows
\* =====================================================================
\* BASE_URL
MuBaseUrl == <<"https://musify.club">>

\* the url of a row, <<>> standing for null: BASE_URL + dataPlayUrl, with a
\* leading '/' added when missing, only when the attribute is non-empty
MuUrlUnchecked(it) == MuBaseUrl \o it.url
MuUrl(it) ==
    IF it.play /\ it.attr /\ it.url # <<>>
      THEN MuBaseUrl \o (IF Head(it.url) # "/" THEN <<"/">> \o it.url ELSE it.url)
      ELSE <<>>

\* a row: whether it has a .play element, whether that element has the
\* data-play-url attribute, and the attribute's text
InitMu ==
    /\ script = "musify"
    /\ muItems \in SeqsUpTo(
            { [play |-> FALSE, attr |-> FALSE, url |-> <<>>],
              [play |-> TRUE, attr |-> FALSE, url |-> <<>>],
              [play |-> TRUE, attr |-> TRUE, url |-> <<>>],
              [play |-> TRUE, attr |-> TRUE, url |-> <<"/", "track/1">>],
              [play |-> TRUE, attr |-> TRUE, url |-> <<"track/2">>] },
            MaxMuItems)
    /\ muI = 0 /\ muPc = "start" /\ muEntries = <<>>
    /\ muStatus = "none" /\ muDownload = FALSE
    /\ SqIdle /\ KhIdle /\ RrIdle /\ TxIdle /\ ExtIdle

\* the allPlaylistItems.length === 0 test before the loop
MuStart ==
    /\ script = "musify" /\ muPc = "start"
    /\ IF Len(muItems) = 0
         THEN muPc' = "done" /\ muStatus' = "no items" /\ muI' = muI
         ELSE muPc' = "loop" /\ muStatus' = "running" /\ muI' = 1
    /\ UNCHANGED <<script, sqVars, khVars, rrVars, txVars, extVars, muItems, muEntries, muDownload>>

\* one call of the forEach callback
MuItem ==
    /\ script = "musify" /\ muPc = "loop" /\ muI <= Len(muItems)
    /\ LET url == MuUrl(muItems[muI])
       IN muEntries' = IF url = <<>> THEN muEntries
                       ELSE Append(muEntries, [location |-> url, index |-> muI])
    /\ muI' = muI + 1
    /\ UNCHANGED <<script, sqVars, khVars, rrVars, txVars, extVars, muItems, muPc, muStatus, muDownload>>

\* the xspfTrackEntries.length > 0 test after the loop and the download
MuFinish ==
    /\ script = "musify" /\ muPc = "loop" /\ muI > Len(muItems)
    /\ muPc' = "done"
    /\ IF Len(muEntries) > 0
         THEN muStatus' = "success" /\ muDownload' = TRUE
         ELSE muStatus' = "no tracks" /\ muDownload' = FALSE
    /\ UNCHANGED <<script, sqVars, khVars, rrVars, txVars, extVars, muItems, muI, muEntries>>

\* =====================================================================
\* Extension: content script, background script, export
\* A URL is a sequence of pieces cut so that every pattern the code looks
\* for starts and ends at a cut.
\* =====================================================================
YtPlaylistUrl == <<"https://www.", "youtube.com/", "play", "list", "?", "list", "=", "PL1">>
YtWatchUrl == <<"https://www.", "youtube.com/", "watch", "?", "v=", "abc">>
MusifyAlbumUrl == <<"https://", "musify.club/", "album/", "x-1">>
TabUrls == {YtPlaylistUrl, YtWatchUrl, MusifyAlbumUrl}
TabIds == {1}

\* String.prototype.includes(pat)
Includes(s, pat) ==
    \E i \in 0..(Len(s) - Len(pat)) : SubSeq(s, i + 1, i + Len(pat)) = pat

\* the null of detectPageType
NoType == [type |-> "", site |-> ""]

DetectPageType(url) ==
    IF Includes(url, <<"youtube.com/", "play", "list", "?", "list", "=">>)
      THEN [type |-> "playlist", site |-> "youtube"]
    ELSE IF /\ Includes(url, <<"youtube.com/", "watch", "?", "v=">>)
            /\ Includes(url, <<"list", "=">>)
      THEN [type |-> "playlist", site |-> "youtube"]
    ELSE IF Includes(url, <<"musify.club/", "album/">>)
      THEN [type |-> "album", site |-> "musify"]
    ELSE IF Includes(url, <<"musify.club/", "play", "list", "/">>)
      THEN [type |-> "playlist", site |-> "musify"]
    ELSE NoType

\* the message the load listener sends, with the sender's tab id
PageMessage(t, url) ==
    LET pageType == DetectPageType(url)
    IN IF pageType # NoType
         THEN [action |-> "pageDetected", tabId |-> t, url |-> url,
               type |-> pageType.type, site |-> pageType.site]
         ELSE [action |-> "pageNotDetected", tabId |-> t, url |-> <<>>,
               type |-> "", site |-> ""]


UpperChars ==
    <<"A", "B", "C", "D", "E", "F", "G", "H", "I", "J", "K", "L", "M",
      "N", "O", "P", "Q", "R", "S", "T", "U", "V", "W", "X", "Y", "Z">>
LowerChars ==
    <<"a", "b", "c", "d", "e", "f", "g", "h", "i", "j", "k", "l", "m",
      "n", "o", "p", "q", "r", "s", "t", "u", "v", "w", "x", "y", "z">>
IsUpper(c) == \E k \in DOMAIN UpperChars : UpperChars[k] = c
IsLower(c) == \E k \in DOMAIN LowerChars : LowerChars[k] = c
ToLowerCase(c) ==
    IF IsUpper(c) THEN LowerChars[CHOOSE k \in DOMAIN UpperChars : UpperChars[k] = c]
    ELSE c

\* str.replace(/[^a-z0-9]/gi, '_').toLowerCase()
SanitizeKeepCase(str) ==
    [k \in DOMAIN str |->
        IF IsUpper(str[k]) \/ IsLower(str[k]) \/ IsDigit(str[k]) THEN str[k] ELSE "_"]
SanitizeFilename(str) ==
    [k \in DOMAIN str |->
        IF IsUpper(str[k]) \/ IsLower(str[k]) \/ IsDigit(str[k])
          THEN ToLowerCase(str[k]) ELSE "_"]

\* what the injected extractor can hand back: a rejected call, null, or a
\* result whose title may be empty and whose tracks may be missing or empty
Titles == {<<>>, <<"M", "y", ":", " ", "1">>}
ExtractOutcomes ==
    { [rejected |-> TRUE, isNull |-> TRUE, title |-> <<>>, hasTracks |-> FALSE, ntracks |-> 0],
      [rejected |-> FALSE, isNull |-> TRUE, title |-> <<>>, hasTracks |-> FALSE, ntracks |-> 0] }
    \cup { [rejected |-> FALSE, isNull |-> FALSE, title |-> t,
            hasTracks |-> h.has, ntracks |-> h.n] :
              t \in Titles,
              h \in { [has |-> FALSE, n |-> 0], [has |-> TRUE, n |-> 0],
                      [has |-> TRUE, n |-> 2] } }

\* a call of handleExport(tabInfo) at its first await, or already in the
\* catch block when the site is not a supported one
NewExport(info) ==
    [pc |-> IF info.site \in {"youtube", "musify"} THEN "inject" ELSE "failed",
     info |-> info, title |-> <<>>, ntracks |-> 0, filename |-> <<>>,
     answered |-> FALSE, error |-> info.site \notin {"youtube", "musify"}]

\* exportPlaylist without tab info: sendResponse({ error })
RefusedExport ==
    [pc |-> "refused", info |-> NoInfo, title |-> <<>>, ntracks |-> 0,
     filename |-> <<>>, answered |-> TRUE, error |-> FALSE]

\* the catch block: chrome.runtime.sendMessage({ action: "exportError" })
Failed(e) == [e EXCEPT !.pc = "failed", !.error = TRUE]

\* the message of chrome.runtime.lastError and the message of an Error
\* caught in handleExport
HostMessage == "lastError.message"
ThrownMessage == "error.message"

\* a message on its way to the popup's listener or to its getTabStatus
\* callback
PopupMessage(action, arg) == [action |-> action, arg |-> arg]

\* chrome.runtime.sendMessage() reaches the popup when its document is open
ToPopup(open, inbox, m) == IF open THEN Append(inbox, m) ELSE inbox

\* chrome.runtime.sendMessage({ action: "exportError", message })
ReportNothing(open, inbox, message) == inbox
ReportError(open, inbox, message) ==
    ToPopup(open, inbox, PopupMessage("exportError", message))

\* the messages in flight are bounded: there is room for one message to
\* the background script, for one message to the popup, for one to each
BgRoom == Len(bgInbox) + Len(popupInbox) < MaxInbox
PopupRoom == ~popupOpen \/ BgRoom
BothRoom ==
    Len(bgInbox) + Len(popupInbox) + (IF popupOpen THEN 1 ELSE 0) < MaxInbox

\* handleExport has not returned
InFlight(e) == e.pc \in {"inject", "extract", "download"}


InitExt ==
    /\ script = "extension"
    /\ tabUrl \in [TabIds -> TabUrls]
    /\ tabLoading = [t \in TabIds |-> TRUE]
    /\ currentTabInfo = NoInfo
    /\ bgInbox = <<>> /\ exports = <<>> /\ exportsAsked = 0
    /\ PopupClosed
    /\ SqIdle /\ KhIdle /\ RrIdle /\ TxIdle /\ MuIdle

\* two tabs run the content script; nobody opens the popup
InitTabs ==
    /\ script = "tabs"
    /\ tabUrl \in [{1, 2} -> TabUrls]
    /\ tabLoading = [t \in {1, 2} |-> TRUE]
    /\ currentTabInfo = NoInfo
    /\ bgInbox = <<>> /\ exports = <<>> /\ exportsAsked = 0
    /\ PopupClosed
    /\ SqIdle /\ KhIdle /\ RrIdle /\ TxIdle /\ MuIdle

\* the background script alone, receiving whatever is sent to it
InitBg ==
    /\ script = "background"
    /\ tabUrl = <<>> /\ tabLoading = <<>>
    /\ currentTabInfo = NoInfo
    /\ bgInbox = <<>> /\ exports = <<>> /\ exportsAsked = 0
    /\ PopupClosed
    /\ SqIdle /\ KhIdle /\ RrIdle /\ TxIdle /\ MuIdle

\* the tab is sent to another page, which is loaded in full
Navigate ==
    /\ script \in {"extension", "tabs"}
    /\ \E t \in DOMAIN tabUrl, u \in TabUrls :
          /\ u # tabUrl[t] \/ ~tabLoading[t]
          /\ tabUrl' = [tabUrl EXCEPT ![t] = u]
          /\ tabLoading' = [tabLoading EXCEPT ![t] = TRUE]
    /\ UNCHANGED <<script, sqVars, khVars, rrVars, txVars, muVars, ppVars,
                   currentTabInfo, bgInbox, exports, exportsAsked>>

\* the page changes its URL without being loaded again; no listener of the
\* content script is registered for this
SpaNavigate ==
    /\ script = "extension"
    /\ \E t \in DOMAIN tabUrl, u \in TabUrls :
          /\ ~tabLoading[t]
          /\ u # tabUrl[t] /\ u[2] = tabUrl[t][2]
          /\ tabUrl' = [tabUrl EXCEPT ![t] = u]
    /\ UNCHANGED <<script, sqVars, khVars, rrVars, txVars, muVars, ppVars,
                   tabLoading, currentTabInfo, bgInbox, exports, exportsAsked>>

\* the content script's 'load' listener; its message goes to every
\* listener of the extension: the background script and an open popup
OnLoad ==
    /\ script \in {"extension", "tabs"}
    /\ BothRoom
    /\ \E t \in DOMAIN tabUrl :
          /\ tabLoading[t]
          /\ tabLoading' = [tabLoading EXCEPT ![t] = FALSE]
          /\ bgInbox' = Append(bgInbox, PageMessage(t, tabUrl[t]))
          /\ popupInbox' = ToPopup(popupOpen, popupInbox,
                              PopupMessage(PageMessage(t, tabUrl[t]).action, ""))
    /\ UNCHANGED <<script, sqVars, khVars, rrVars, txVars, muVars,
                   tabUrl, currentTabInfo, exports, exportsAsked,
                   popupOpen, exportBtnDisabled, statusMessage, errorMessage,
                   exporting>>

\* a message of the given action, carrying nothing else
ActionMessage(action) ==
    [action |-> action, tabId |-> 0, url |-> <<>>, type |-> "", site |-> ""]

\* the popup's DOMContentLoaded listener, up to the sending of getTabStatus.
\* The disabled attribute the button has in popup.html is not known.
PopupOpen ==
    /\ script \in {"extension", "background"}
    /\ ~popupOpen /\ BgRoom
    /\ popupOpen' = TRUE
    /\ exportBtnDisabled' \in BOOLEAN
    /\ statusMessage' = "Checking current tab..."
    /\ bgInbox' = Append(bgInbox, ActionMessage("getTabStatus"))
    /\ UNCHANGED <<script, sqVars, khVars, rrVars, txVars, muVars,
                   tabUrl, tabLoading, currentTabInfo, exports, exportsAsked,
                   errorMessage, exporting, popupInbox>>

\* the popup's click handler sends exportPlaylist; a disabled button does
\* not fire click
PopupExport ==
    /\ script = "extension"
    /\ popupOpen /\ ~exportBtnDisabled
    /\ exportsAsked < MaxExports /\ BgRoom
    /\ statusMessage' = "Exporting..."
    /\ exportBtnDisabled' = TRUE
    /\ exporting' = TRUE
    /\ exportsAsked' = exportsAsked + 1
    /\ bgInbox' = Append(bgInbox, ActionMessage("exportPlaylist"))
    /\ UNCHANGED <<script, sqVars, khVars, rrVars, txVars, muVars,
                   tabUrl, tabLoading, currentTabInfo, exports,
                   popupOpen, errorMessage, popupInbox>>

\* updateUI(isValid)
UpdateUIStatus(isValid) ==
    IF isValid THEN "Playlist or album found. Click to export."
    ELSE "Navigate to a playlist or an album page."

\* the popup's chrome.runtime.onMessage listener and the callback of its
\* getTabStatus message
PopupReceive ==
    /\ script \in {"extension", "background"}
    /\ popupOpen /\ popupInbox # <<>>
    /\ LET request == Head(popupInbox)
       IN /\ exportBtnDisabled' =
                IF request.action = "tabStatus" THEN request.arg # "valid"
                ELSE IF request.action = "pageDetected" THEN FALSE
                ELSE IF request.action = "pageNotDetected" THEN TRUE
                ELSE FALSE
          /\ statusMessage' =
                IF request.action = "tabStatus"
                  THEN UpdateUIStatus(request.arg = "valid")
                ELSE IF request.action = "pageDetected" THEN "Ready to export"
                ELSE IF request.action = "pageNotDetected" THEN UpdateUIStatus(FALSE)
                ELSE IF request.action = "exportError" THEN "Export failed."
                ELSE "Export completed!"
          /\ errorMessage' =
                IF request.action = "exportError" THEN request.arg ELSE errorMessage
          /\ exporting' =
                IF request.action \in {"exportError", "exportSuccess"} THEN FALSE
                ELSE exporting
    /\ popupInbox' = Tail(popupInbox)
    /\ UNCHANGED <<script, sqVars, khVars, rrVars, txVars, muVars,
                   tabUrl, tabLoading, currentTabInfo, bgInbox, exports,
                   exportsAsked, popupOpen>>

\* what other parts of the extension can send to the background script
BgMessages ==
    {PageMessage(t, u) : t \in {1, 2}, u \in {YtPlaylistUrl, YtWatchUrl}}
    \cup {ActionMessage(a) :
            a \in {"exportPlaylist", "getTabStatus", "exportSuccess", "exportError"}}

\* the value of currentTabInfo after the listener has run for the request
FirstTabInfoWins(info, request) ==
    IF request.action = "pageDetected" /\ ~info.valid
      THEN [valid |-> TRUE, tabId |-> request.tabId, url |-> request.url,
            type |-> request.type, site |-> request.site]
    ELSE IF request.action = "pageNotDetected" THEN NoInfo
    ELSE info
NextTabInfo(info, request) ==
    IF request.action = "pageDetected"
      THEN [valid |-> TRUE, tabId |-> request.tabId, url |-> request.url,
            type |-> request.type, site |-> request.site]
    ELSE IF request.action = "pageNotDetected" THEN NoInfo
    ELSE info

\* a message is sent to the background script
Deliver ==
    /\ script = "background"
    /\ BgRoom
    /\ \E m \in BgMessages :
          /\ m.action = "exportPlaylist" => exportsAsked < MaxExports
          /\ exportsAsked' = IF m.action = "exportPlaylist"
                               THEN exportsAsked + 1 ELSE exportsAsked
          /\ bgInbox' = Append(bgInbox, m)
    /\ UNCHANGED <<script, sqVars, khVars, rrVars, txVars, muVars, ppVars,
                   tabUrl, tabLoading, currentTabInfo, exports>>

\* the background script's chrome.runtime.onMessage listener. Calls of
\* handleExport that have returned are forgotten when a new one starts.
OnMessage ==
    /\ script \in {"extension", "tabs", "background"}
    /\ bgInbox # <<>>
    /\ LET request == Head(bgInbox)
           started == IF currentTabInfo.valid THEN NewExport(currentTabInfo)
                      ELSE RefusedExport
       IN /\ currentTabInfo' = NextTabInfo(currentTabInfo, request)
          /\ exports' =
                IF request.action = "exportPlaylist"
                  THEN Append(SelectSeq(exports, InFlight), started)
                  ELSE exports
          /\ exportsAsked' =
                IF request.action = "exportPlaylist" /\ ~InFlight(started)
                  THEN exportsAsked - 1 ELSE exportsAsked
          /\ popupInbox' =
                IF request.action = "getTabStatus"
                  THEN ToPopup(popupOpen, popupInbox,
                          PopupMessage("tabStatus",
                              IF currentTabInfo.valid THEN "valid" ELSE "invalid"))
                ELSE IF request.action = "exportPlaylist" /\ started.pc = "failed"
                  THEN ReportError(popupOpen, popupInbox, ThrownMessage)
                ELSE popupInbox
    /\ bgInbox' = Tail(bgInbox)
    /\ UNCHANGED <<script, sqVars, khVars, rrVars, txVars, muVars,
                   tabUrl, tabLoading,
                   popupOpen, exportBtnDisabled, statusMessage, errorMessage,
                   exporting>>

\* handleExport after the executeScript that injects the files
Injected ==
    /\ script = "extension" /\ PopupRoom
    /\ \E k \in DOMAIN exports, ok \in BOOLEAN :
          /\ exports[k].pc = "inject"
          /\ exports' = [exports EXCEPT ![k] =
                IF ok THEN [@ EXCEPT !.pc = "extract"] ELSE Failed(@)]
          /\ exportsAsked' = IF ok THEN exportsAsked ELSE exportsAsked - 1
          /\ popupInbox' = IF ok THEN popupInbox
                           ELSE ReportError(popupOpen, popupInbox, ThrownMessage)
    /\ UNCHANGED <<script, sqVars, khVars, rrVars, txVars, muVars,
                   tabUrl, tabLoading, currentTabInfo, bgInbox,
                   popupOpen, exportBtnDisabled, statusMessage, errorMessage,
                   exporting>>

\* handleExport after the executeScript that runs the extractor, down to
\* the call of chrome.downloads.download in downloadXSPF() or to the catch
\* block. In `if (playlistData && playlistTitle)` an array, even an empty
\* one, is truthy and an empty or missing title is not. The file name is
\* `${sanitizeFilename(playlistTitle)}.xspf`. URL.createObjectURL is missing
\* in some background contexts, and calling it throws there.
Extracted ==
    /\ script = "extension" /\ PopupRoom
    /\ \E k \in DOMAIN exports, res \in ExtractOutcomes, hasObjectURL \in BOOLEAN :
          /\ exports[k].pc = "extract"
          /\ LET ok == /\ ~res.rejected /\ ~res.isNull /\ res.hasTracks
                       /\ res.title # <<>> /\ hasObjectURL
             IN /\ exports' = [exports EXCEPT ![k] =
                      IF ok
                        THEN [@ EXCEPT !.pc = "download", !.title = res.title,
                                       !.ntracks = res.ntracks,
                                       !.filename = SanitizeFilename(res.title) \o XspfExt]
                        ELSE Failed(@)]
                /\ exportsAsked' = IF ok THEN exportsAsked ELSE exportsAsked - 1
                /\ popupInbox' = IF ok THEN popupInbox
                                 ELSE ReportError(popupOpen, popupInbox, ThrownMessage)
    /\ UNCHANGED <<script, sqVars, khVars, rrVars, txVars, muVars,
                   tabUrl, tabLoading, currentTabInfo, bgInbox,
                   popupOpen, exportBtnDisabled, statusMessage, errorMessage,
                   exporting>>

\* the callback of chrome.downloads.download
DownloadCallback ==
    /\ script = "extension" /\ PopupRoom
    /\ \E k \in DOMAIN exports, lastError \in BOOLEAN :
          /\ exports[k].pc = "download"
          /\ exports' = [exports EXCEPT ![k] =
                IF lastError THEN Failed(@) ELSE [@ EXCEPT !.pc = "done"]]
          /\ popupInbox' = IF lastError
                             THEN ReportError(popupOpen, popupInbox, HostMessage)
                             ELSE popupInbox
    /\ exportsAsked' = exportsAsked - 1
    /\ UNCHANGED <<script, sqVars, khVars, rrVars, txVars, muVars,
                   tabUrl, tabLoading, currentTabInfo, bgInbox,
                   popupOpen, exportBtnDisabled, statusMessage, errorMessage,
                   exporting>>

\* =====================================================================
\* Detection of one URL: the content script's load listener, then the
\* playlist id read by the YouTube script injected for a YouTube detection
\* =====================================================================
\* the query string of the parameters ps
RECURSIVE JoinParams(_)
JoinParams(ps) ==
    IF ps = <<>> THEN <<>>
    ELSE IF Len(ps) = 1 THEN ps[1]
    ELSE ps[1] \o <<"&">> \o JoinParams(Tail(ps))

UrlOf(host, path, ps) ==
    <<"https://", host>> \o path
        \o (IF ps = <<>> THEN <<>> ELSE <<"?">> \o JoinParams(ps))

\* url.match(/[?&]list=([a-zA-Z0-9_-]+)/): the first piece k where the
\* pattern matches, the id being one of the pieces [a-zA-Z0-9_-]+ can match
GetPlaylistIdFromCurrentUrl(url) ==
    LET IdPieces == {"abc", "PL1", "x", "x-1", "list", "play", "watch", "about"}
        ks == {k \in DOMAIN url :
                  /\ k + 3 <= Len(url)
                  /\ url[k] \in {"?", "&"}
                  /\ url[k + 1] = "list" /\ url[k + 2] = "="
                  /\ url[k + 3] \in IdPieces}
    IN IF ks = {} THEN Null ELSE url[MinOf(ks) + 3]

\* the URL of the page: one of three hosts, a path, and up to MaxParams of
\* the query parameters v=abc, list=PL1, list= and playlist=x
InitDetect ==
    /\ script = "detect"
    /\ txIn \in {UrlOf(h, p, ps) :
            h \in {"youtube.com/", "musify.club/", "example.org/"},
            p \in { <<"play", "list">>, <<"watch">>, <<"album/", "x-1">>,
                    <<"play", "list", "/", "x-1">>, <<"about">> },
            ps \in SeqsUpTo({ <<"v=", "abc">>, <<"list", "=", "PL1">>,
                              <<"list", "=">>, <<"play", "list", "=", "x">> },
                            MaxParams)}
    /\ txOp = "none" /\ txOut = <<>> /\ txDur = NoDuration
    /\ SqIdle /\ KhIdle /\ RrIdle /\ MuIdle /\ ExtIdle

\* the 'load' listener: one chrome.runtime.sendMessage
DetectLoad ==
    /\ script = "detect" /\ txOp = "none"
    /\ txOp' = "load"
    /\ LET m == PageMessage(1, txIn) IN txOut' = <<m.action, m.type, m.site>>
    /\ UNCHANGED <<script, sqVars, khVars, rrVars, muVars, extVars, txIn, txDur>>

\* the YouTube script, injected when the detected site is youtube
DetectPlaylistId ==
    /\ script = "detect" /\ txOp = "load"
    /\ txOut[3] = "youtube"
    /\ txOp' = "id"
    /\ txOut' = Append(txOut, GetPlaylistIdFromCurrentUrl(txIn))
    /\ UNCHANGED <<script, sqVars, khVars, rrVars, muVars, extVars, txIn, txDur>>

\* =====================================================================
\* The Squidify script started twice on one page. Both runs share the
\* page: window.capturedTracks and the audio element. waitForMetadata()
\* is a wait that ends at some later turn of the event loop.
\* =====================================================================
Runs == {1, 2}

\* one run's synchronous code is on the stack
RrBusy == \E r \in Runs : rrPc[r] = "loop"

InitRr ==
    /\ script = "squidify2"
    /\ rrRows \in 0..MaxRrRows
    /\ rrPc = [r \in Runs |-> "off"]
    /\ rrI = [r \in Runs |-> 1]
    /\ rrSrc \in {"", "https://cdn/stream/a"}
    /\ rrCaptured = <<>>
    /\ rrPushed = [r \in Runs |-> <<>>]
    /\ rrFinal = [r \in Runs |-> <<>>]
    /\ SqIdle /\ KhIdle /\ TxIdle /\ MuIdle /\ ExtIdle

\* the script is pasted into the console: `window.capturedTracks = []`,
\* then run() up to its loop; the second start comes after the first
RrStart ==
    /\ script = "squidify2" /\ ~RrBusy
    /\ \E r \in Runs :
          /\ rrPc[r] = "off"
          /\ \A q \in Runs : q < r => rrPc[q] # "off"
          /\ rrCaptured' = <<>>
          /\ rrPc' = [rrPc EXCEPT ![r] = IF rrRows = 0 THEN "error" ELSE "loop"]
    /\ UNCHANGED <<script, sqVars, khVars, txVars, muVars, extVars,
                   rrRows, rrI, rrSrc, rrPushed, rrFinal>>

\* btn.click() and the call of waitForMetadata()
RrClick ==
    /\ script = "squidify2"
    /\ \E r \in Runs :
          /\ rrPc[r] = "loop" /\ rrI[r] <= rrRows
          /\ rrSrc' \in {rrSrc} \cup StreamSrcs
          /\ rrPc' = [rrPc EXCEPT ![r] = "await"]
    /\ UNCHANGED <<script, sqVars, khVars, txVars, muVars, extVars,
                   rrRows, rrI, rrCaptured, rrPushed, rrFinal>>

\* continuation of run() after `await waitForMetadata()`
RrResume ==
    /\ script = "squidify2" /\ ~RrBusy
    /\ \E r \in Runs :
          /\ rrPc[r] = "await"
          /\ IF rrSrc # "" /\ IncludesStream(rrSrc)
                    /\ ~AlreadyCaptured(rrCaptured, rrSrc)
               THEN LET track == [location |-> rrSrc, row |-> rrI[r], by |-> r]
                    IN /\ rrCaptured' = Append(rrCaptured, track)
                       /\ rrPushed' = [rrPushed EXCEPT ![r] = Append(@, track)]
               ELSE UNCHANGED <<rrCaptured, rrPushed>>
          /\ rrI' = [rrI EXCEPT ![r] = @ + 1]
          /\ rrPc' = [rrPc EXCEPT ![r] = "loop"]
    /\ UNCHANGED <<script, sqVars, khVars, txVars, muVars, extVars,
                   rrRows, rrSrc, rrFinal>>

\* finish(): the export is window.capturedTracks.slice(1)
RrFinish ==
    /\ script = "squidify2"
    /\ \E r \in Runs :
          /\ rrPc[r] = "loop" /\ rrI[r] > rrRows
          /\ rrFinal' = [rrFinal EXCEPT ![r] = FinalTracks(rrCaptured)]
          /\ rrPc' = [rrPc EXCEPT ![r] = "done"]
    /\ UNCHANGED <<script, sqVars, khVars, txVars, muVars, extVars,
                   rrRows, rrI, rrSrc, rrCaptured, rrPushed>>

\* =====================================================================
\* Specifications
\* =====================================================================
NextSq ==
    \/ SqStart \/ SqSkipRow \/ SqClick \/ SqResume \/ SqFinish
    \/ SqTimerFires \/ SqMediaLoaded \/ Advance

NextKh ==
    \/ KhStart \/ KhIssueFetch \/ KhFetchReturns \/ KhFinish \/ Advance








NextExt ==
    \/ Navigate \/ SpaNavigate \/ OnLoad \/ PopupOpen \/ PopupExport
    \/ PopupReceive \/ OnMessage \/ Injected \/ Extracted \/ DownloadCallback



Init == InitSq \/ InitKh \/ InitDur \/ InitEsc \/ InitName \/ InitTitle \/ InitMu \/ InitExt \/ InitTabs \/ InitBg \/ InitDetect \/ InitRr

Next ==
    \/ NextSq \/ NextKh
    \/ DurKhV32 \/ DurKhV33 \/ DurMusify
    \/ EscExt \/ EscYoutube \/ EscKh
    \/ NameKh \/ NameSq
    \/ TitleParse
    \/ MuStart \/ MuItem \/ MuFinish
    \/ NextExt \/ Deliver
    \/ DetectLoad \/ DetectPlaylistId
    \/ RrStart \/ RrClick \/ RrResume \/ RrFinish

Spec == Init /\ [][Next]_vars

SpecSq == InitSq /\ [][NextSq]_vars

SpecKh == InitKh /\ [][NextKh]_vars

SpecDur == InitDur /\ [][(DurKhV32 \/ DurKhV33 \/ DurMusify)]_vars

SpecEsc == InitEsc /\ [][(EscExt \/ EscYoutube \/ EscKh)]_vars

SpecName == InitName /\ [][(NameKh \/ NameSq)]_vars

SpecTitle == InitTitle /\ [][TitleParse]_vars

SpecExt == InitExt /\ [][NextExt]_vars

SpecTabs == InitTabs /\ [][(Navigate \/ OnLoad \/ OnMessage)]_vars

SpecBg == InitBg /\ [][(Deliver \/ PopupOpen \/ PopupReceive \/ OnMessage)]_vars

\* The browser delivers every message that was sent and calls every
\* callback of a finished request; the user is free not to navigate, not
\* to open the popup and not to click.
SpecExtFair ==
    /\ SpecExt
    /\ WF_vars(OnLoad) /\ WF_vars(OnMessage) /\ WF_vars(PopupReceive)
    /\ WF_vars(Injected) /\ WF_vars(Extracted) /\ WF_vars(DownloadCallback)

SpecDetect == InitDetect /\ [][(DetectLoad \/ DetectPlaylistId)]_vars

SpecRr == InitRr /\ [][(RrStart \/ RrClick \/ RrResume \/ RrFinish)]_vars

\* Timers, media events and queued continuations are run by the browser's
\* event loop, so every step that stays enabled is eventually taken.
SpecSqFair == SpecSq /\ WF_vars(NextSq)

\* =====================================================================
\* Properties
\* =====================================================================
RECURSIVE FirstOccs(_)
\* the first occurrences of the elements of s, in order
FirstOccs(s) ==
    IF s = <<>> THEN <<>>
    ELSE LET p == FirstOccs(SubSeq(s, 1, Len(s) - 1))
             l == s[Len(s)]
         IN IF l \in Range(p) THEN p ELSE Append(p, l)

Count(s, x) == Cardinality({k \in DOMAIN s : s[k] = x})

LocationsOf(tracks) == [k \in DOMAIN tracks |-> tracks[k].location]

\* the sources the rows of the run resolved to, in row order
SeenSrcs == [k \in DOMAIN sqSeen |-> sqSeen[k].src]

\* locations two or more rows resolved to
DuplicatedSrcs == {l \in Range(SeenSrcs) : Count(SeenSrcs, l) >= 2}

\* C1: the captured list never holds two records with the same location, and
\* it is exactly the list of first occurrences of the resolved sources: a
\* row resolving to an already captured location adds nothing and moves
\* nothing.
C1_UniqueLocations ==
    /\ \A j, k \in DOMAIN capturedTracks :
          j # k => capturedTracks[j].location # capturedTracks[k].location
    /\ LocationsOf(capturedTracks) = FirstOccs(SeenSrcs)

C1_Witness ==
    /\ Len(capturedTracks) >= 2
    /\ DuplicatedSrcs # {}
    /\ sqPc = "loop"

\* C2 (as claimed): after a run that exported a file, every location two rows
\* resolved to occurs exactly once among the exported tracks, also when its
\* first occurrence was the first captured record.
C2_Original ==
    (sqPc = "done" /\ sqFile) =>
        \A l \in DuplicatedSrcs : Count(LocationsOf(sqFinal), l) = 1

\* C2 (amended): the exported tracks are the first occurrences of the
\* resolved sources, in order, without the first captured record: a
\* duplicated location is exported exactly once at the rank of its first
\* occurrence, unless it is the location of the first captured record, which
\* finish() drops, and then it is not exported at all.
C2_Amended ==
    sqPc = "done" /\ sqStatus # "ERROR" =>
        /\ LocationsOf(sqFinal) = Slice1(FirstOccs(SeenSrcs))
        /\ \A l \in DuplicatedSrcs :
              Count(LocationsOf(sqFinal), l) = IF l = SeenSrcs[1] THEN 0 ELSE 1

C2_Witness ==
    /\ sqPc = "done" /\ sqFile
    /\ \E l \in DuplicatedSrcs : l # SeenSrcs[1] /\ Count(LocationsOf(sqFinal), l) = 1

\* C3: the KHInsider track list never holds two entries with the same
\* location.
C3_NoDuplicateEntries ==
    \A j, k \in DOMAIN khEntries :
        j # k => khEntries[j].location # khEntries[k].location

AllRowsResolved ==
    \A r \in 0..(Len(KhRows) - 1) : khOutcome[r] \in DirectUrls

\* C4: the entries are always in row order, and when every row resolved the
\* finished list is exactly rows 1..n, whatever the latencies were.
C4_OrderPreserved ==
    /\ \A j, k \in DOMAIN khEntries :
          j < k => khEntries[j].trackNum < khEntries[k].trackNum
    /\ (khPc = "done" /\ khStatus = "success" /\ AllRowsResolved) =>
          [k \in DOMAIN khEntries |-> khEntries[k].trackNum]
             = [k \in 1..Len(KhRows) |-> k]

C4_Witness ==
    /\ khPc = "done" /\ AllRowsResolved
    /\ Len(khEntries) >= 2
    /\ khLatency[0] > khLatency[1]

\* C5: at most one row resolution is in progress: a fetch is issued only
\* after the fetches of all earlier rows have ended, and a row is clicked
\* only after the waits of all earlier clicked rows were declared ready.
C5_OneResolutionAtATime ==
    /\ Cardinality(khRequests) <= 1
    /\ \A r \in DOMAIN khAttempts :
          khAttempts[r] > 0 =>
              \A q \in DOMAIN khAttempts : q < r => khOutcome[q] # "none"
    /\ Cardinality(sqArmed \ sqReady) <= 1
    /\ \A i, j \in sqArmed : j < i => j \in sqReady

C5_Witness ==
    /\ Cardinality(sqArmed) >= 2
    /\ sqPc = "await" /\ sqI \notin sqReady
    /\ \E t \in timers : t.wait < sqI

\* C6: every armed wait is eventually declared ready and the run reaches
\* finish(), with or without loadedmetadata events.
C6_EventuallyFinishes ==
    /\ \A w \in 1..MaxSqRows : [](w \in sqArmed => <>(w \in sqReady))
    /\ <>(sqPc = "done")

C6_Witness ==
    /\ sqPc = "done"
    /\ \E w \in sqReady : sqReadyBy[w].kind = "timeout" /\ w \notin sqLoadedSeen
    /\ \E w \in sqReady : sqReadyBy[w].kind = "retry"

\* C7: a wait that received the notification is not declared ready while
\* the settle delay started by the notification is still running.
C7_SettleDelayRespected ==
    \A t \in timers :
        (t.kind = "settle" /\ t.rem > 0) => t.wait \notin sqReady

\* C8: at most one listener is subscribed, it belongs to the wait in
\* progress, a wait declared ready has no listener left, and a wait is only
\* ever declared ready by its own timers.
C8_SingleListener ==
    /\ Cardinality(listeners) <= 1
    /\ listeners \subseteq (sqArmed \ sqReady)
    /\ \A w \in sqReady : sqReadyBy[w].wait = w

\* an earlier wait ended by notification, leaving its 12 s timer pending; the
\* timer has fired since, and the wait in progress is still not ready
C8_Witness ==
    /\ sqPc = "await" /\ sqI \in listeners /\ sqI \notin sqReady
    /\ \E w \in sqReady :
          /\ w < sqI
          /\ sqReadyBy[w].kind = "settle"
          /\ ~\E t \in timers : t.wait = w

FailedOutcomes == {"neterr", "nomarker", "nohref"}

\* C9: a row whose fetch failed or whose page lacks the marker or the href
\* contributes no entry, no row is fetched twice, the run is never aborted,
\* and a finished run has fetched every row once.
C9_FailureSkipsRow ==
    /\ khPc # "rejected"
    /\ \A r \in DOMAIN khAttempts :
          /\ khAttempts[r] <= 1
          /\ khOutcome[r] \in FailedOutcomes =>
                /\ khAttempts[r] = 1
                /\ ~\E k \in DOMAIN khEntries : khEntries[k].trackNum = r + 1
    /\ (khPc = "done" /\ khStatus \in {"success", "no tracks"}) =>
          /\ \A r \in 0..(Len(KhRows) - 1) :
                khAttempts[r] = 1 /\ khOutcome[r] # "none"
          /\ Len(khEntries) =
                Cardinality({r \in 0..(Len(KhRows) - 1) : khOutcome[r] \in DirectUrls})

C9_Witness ==
    /\ khPc = "done"
    /\ \E r, q \in DOMAIN khOutcome :
          /\ r < q
          /\ khOutcome[r] = "neterr"
          /\ khOutcome[q] \in DirectUrls
          /\ \E k \in DOMAIN khEntries : khEntries[k].trackNum = q + 1

\* C10: a run with candidate rows of which none resolved ends with the
\* "no tracks" status and creates no Blob and no download.
C10_NoTracksNoFile ==
    (khPc = "done" /\ Len(KhRows) > 0 /\ Len(khEntries) = 0) =>
        khStatus = "no tracks" /\ ~khBlob /\ ~khDownload

\* the shape M:SS or H:MM:SS: two or three non-empty fields of digits
WellFormedDuration(s) ==
    LET f == SplitOn(s, ":")
    IN Len(f) \in {2, 3} /\ \A k \in DOMAIN f : f[k] # <<>> /\ AllDigits(f[k])

\* ((H*60+M)*60+S)*1000 of a well-formed text, H = 0 for M:SS
ExpectedMs(s) ==
    LET f == SplitOn(s, ":")
        H == IF Len(f) = 3 THEN NumberOf(f[1]) ELSE 0
        M == NumberOf(f[Len(f) - 1])
        S == NumberOf(f[Len(f)])
    IN ((H * 60 + M) * 60 + S) * 1000

\* C13: whichever script parsed the duration text, a well-formed M:SS or
\* H:MM:SS text gives ((H*60+M)*60+S)*1000 ms (an omitted element standing
\* for 0 only) and every other text gives 0 or an omitted duration.
C13_DurationParsed ==
    (script = "duration" /\ txOp \in {"khV32", "khV33", "musify"}) =>
        IF WellFormedDuration(txIn)
          THEN /\ txDur.ms = ExpectedMs(txIn)
               /\ txDur.emit \/ ExpectedMs(txIn) = 0
          ELSE ~txDur.emit \/ txDur.ms = 0

\* C14: no track carries a negative duration: the <duration> the Musify
\* script writes is >= 0 or omitted, and so is every duration the Squidify
\* collector captured.
C14_NoNegativeDuration ==
    /\ (script = "duration" /\ txOp = "musify" /\ txDur.emit) => txDur.ms >= 0
    /\ \A k \in DOMAIN capturedTracks : capturedTracks[k].duration >= 0

\* the entity of each of the five XML-special characters
XmlEntity(c) ==
    CASE c = "&" -> Amp
      [] c = "<" -> <<"&", "l", "t", ";">>
      [] c = ">" -> <<"&", "g", "t", ";">>
      [] c = "'" -> Apos
      [] c = "\"" -> Quot
      [] OTHER -> <<c>>

\* C15: in the text escaped by the extension's escapeXml each of & < > ' "
\* of the input appears as its entity only, and every other character is
\* unchanged.
C15_SpecialsOnlyAsEntities ==
    (script = "escape" /\ txOp = "ext") =>
        txOut = Flatten([k \in DOMAIN txIn |-> XmlEntity(txIn[k])])

\* C16: in a text field written by the KHInsider and YouTube scripts every
\* & is &amp;, every < is &lt;, every > is &gt;, and no input character is
\* dropped (a quote is kept, raw or as its entity).
C16_ThreeEntitiesNothingDropped ==
    (script = "escape" /\ txOp \in {"kh", "youtube"}) =>
        \E q \in [DOMAIN txIn -> BOOLEAN] :
            txOut = Flatten([k \in DOMAIN txIn |->
                        IF txIn[k] \in {"'", "\""} /\ ~q[k] THEN <<txIn[k]>>
                        ELSE XmlEntity(txIn[k])])

\* the title of the claim's example and the name it must give with tag Foo
ExampleTitle ==
    <<"B", "e", "s", "t", ":", " ", "O", "f", " ",
      "\"", "A", "r", "t", "i", "s", "t", "\"", "?">>
ExampleSafe ==
    <<"B", "e", "s", "t", "_", " ", "O", "f", " ",
      "_", "A", "r", "t", "i", "s", "t", "_", "_">>

\* name is title with each of \ / : * ? " < > | replaced by _ and every other
\* character kept, followed by the site tag and .xspf
IsSafeNameOf(name, title, tag) ==
    /\ Len(name) = Len(title) + Len(tag) + 5
    /\ \A k \in DOMAIN title :
          name[k] = IF title[k] \in {"\\", "/", ":", "*", "?", "\"", "<", ">", "|"}
                      THEN "_" ELSE title[k]
    /\ SubSeq(name, Len(title) + 1, Len(title) + Len(tag)) = tag
    /\ SubSeq(name, Len(name) - 4, Len(name)) = <<".", "x", "s", "p", "f">>

\* C18: the download name of the KHInsider and Squidify scripts is the page
\* title with every \ / : * ? " < > | replaced by _ and all else unchanged,
\* followed by " [SiteTag].xspf"; the title `Best: Of "Artist"?` is
\* sanitised to `Best_ Of _Artist__`.
C18_FilenameSanitised ==
    /\ (script = "filename" /\ txOp = "kh") =>
          IsSafeNameOf(txOut, KhAlbumTitle(txIn),
                       <<" ", "[", "K", "h", "i", "n", "s", "i", "d", "e", "r", "]">>)
    /\ (script = "filename" /\ txOp = "squidify") =>
          IsSafeNameOf(txOut, txIn,
                       <<" ", "[", "S", "q", "u", "i", "d", "i", "f", "y", ".", "o", "r", "g", "]">>)
    /\ (script = "filename" /\ txOp # "none") =>
          ReplaceUnsafe(ExampleTitle) = ExampleSafe

C18_Witness ==
    /\ script = "filename" /\ txOp = "kh"
    /\ \E j, k \in DOMAIN txIn :
          j < k /\ txIn[j] = ":" /\ txIn[k] = "\""
    /\ \E k \in DOMAIN txIn : txIn[k] = "a" /\ txOut[k] = "a"
    /\ \E k \in DOMAIN txIn : txOut[k] = "_"

\* C17: every track of the KHInsider, Musify and Squidify scripts has a
\* non-empty resolved location, and a row with a null direct link, a
\* missing or empty data-play-url, or an empty or non-stream audio source
\* has produced no track.
C17_LocationResolved ==
    /\ \A k \in DOMAIN khEntries :
          /\ khEntries[k].location \notin {"", Null}
          /\ khOutcome[khEntries[k].trackNum - 1] = khEntries[k].location
    /\ \A k \in DOMAIN capturedTracks :
          /\ capturedTracks[k].location # ""
          /\ capturedTracks[k].location \in {"https://cdn/stream/a", "https://cdn/stream/b"}
    /\ \A k \in DOMAIN sqFinal : \E j \in DOMAIN capturedTracks :
          sqFinal[k] = capturedTracks[j]
    /\ \A k \in DOMAIN muEntries :
          LET it == muItems[muEntries[k].index]
          IN /\ Len(muEntries[k].location) > 1
             /\ Head(muEntries[k].location) = "https://musify.club"
             /\ muEntries[k].location[2] = "/"
             /\ it.play /\ it.attr /\ it.url # <<>>

C17_Witness ==
    /\ script = "musify" /\ muPc = "done" /\ muDownload
    /\ Len(muEntries) = 1
    /\ \E i, j \in DOMAIN muItems : ~muItems[i].attr /\ muItems[j].url = <<"track/2">>

\* C11: a console script run on a page with zero candidate rows ends
\* without an exception, makes no file, clicks and fetches nothing, and
\* reports the "no rows" status, not the status of a run whose rows all
\* failed to resolve.
C11_NoRowsReported ==
    /\ (script = "squidify" /\ sqPc = "done" /\ Len(sqRows) = 0) =>
          /\ sqStatus = "ERROR"
          /\ ~sqFile /\ sqSeen = <<>> /\ capturedTracks = <<>> /\ timers = {}
    /\ (script = "khinsider" /\ khTable /\ Len(KhRows) = 0) =>
          /\ khPc # "rejected"
          /\ khRequests = {} /\ \A r \in DOMAIN khAttempts : khAttempts[r] = 0
          /\ khPc = "done" => khStatus = "no rows" /\ ~khBlob /\ ~khDownload

\* C12: an export whose extractor returned a title and an empty track list
\* hands no file to the download sink and reports exportError.
C12_EmptyListNoFile ==
    \A k \in DOMAIN exports :
        (exports[k].title # <<>> /\ exports[k].ntracks = 0
            /\ exports[k].pc \in {"download", "done", "failed"}) =>
                exports[k].filename = <<>> /\ exports[k].error

C20_DetectionFollowsUrl ==
    (script = "extension" /\ bgInbox = <<>> /\ \A t \in TabIds : ~tabLoading[t]) =>
        IF currentTabInfo.valid
          THEN /\ currentTabInfo.url = tabUrl[currentTabInfo.tabId]
               /\ DetectPageType(currentTabInfo.url) # NoType
          ELSE \E t \in TabIds : DetectPageType(tabUrl[t]) = NoType

\* the pieces before position k and from position k on
Before(t, k) == SubSeq(t, 1, k - 1)
From(t, k) == SubSeq(t, k, Len(t))

\* t reads "Artist - N - Title" or "Artist - N. Title" with the separator
\* before the number at piece k and the title starting at piece m
HasNumberedForm(t, k, m) ==
    /\ k >= 2 /\ m <= Len(t) /\ m >= k + 3
    /\ t[k] = " - "
    /\ \A j \in (k + 1)..(m - 2) : t[j] \in {"0", "1", "2", "3", "4", "5", "6", "7", "8", "9"}
    /\ t[m - 1] \in {" - ", "."}

\* C24: for a video of a non-album playlist whose author does not end with
\* " - Topic": a title of the form "Artist - N - Title" or "Artist - N. Title"
\* gives the text before the first such separator as creator and the
\* remainder as title; otherwise a title holding " - " gives the text before
\* its first occurrence as creator and all the text after it as title;
\* otherwise both are unchanged.
C24_TitleParsed ==
    (script = "title" /\ txOp = "playlist" /\ txIn[1] = <<"X">> /\ txIn[2] # <<>>) =>
        LET t == txIn[2]
            forms == {km \in (1..Len(t)) \X (1..Len(t)) : HasNumberedForm(t, km[1], km[2])}
            seps == {k \in 1..Len(t) : t[k] = " - "}
        IN IF forms # {}
             THEN LET k == MinOf({km[1] : km \in forms})
                      m == MinOf({km[2] : km \in {x \in forms : x[1] = k}})
                  IN txOut = <<Before(t, k), From(t, m)>>
           ELSE IF seps # {}
             THEN txOut = <<Before(t, MinOf(seps)), From(t, MinOf(seps) + 1)>>
           ELSE txOut = <<txIn[1], t>>

\* the URL is on host h with first path pieces p
OnPath(url, h, p) ==
    Len(url) >= 2 + Len(p) /\ SubSeq(url, 2, 2 + Len(p)) = <<h>> \o p

\* the URL has a query parameter named list
HasListParam(url) ==
    \E k \in DOMAIN url :
        /\ k + 2 <= Len(url)
        /\ url[k] \in {"?", "&"} /\ url[k + 1] = "list" /\ url[k + 2] = "="

\* the URL is a playlist page or a watch page of YouTube
IsYtListPage(url) ==
    /\ \/ /\ OnPath(url, "youtube.com/", <<"play", "list">>)
          /\ (Len(url) = 4 \/ url[5] = "?")
       \/ OnPath(url, "youtube.com/", <<"watch">>)
    /\ HasListParam(url)

\* C26: the one message sent on load is pageDetected{playlist, youtube}
\* exactly for a YouTube playlist or watch URL with a list query parameter,
\* pageDetected{album|playlist, musify} exactly for a musify URL with the
\* path segment, pageNotDetected otherwise; and a URL classified as a
\* YouTube playlist has a playlist id that the extraction reads.
C26_DetectionByUrl ==
    (script = "detect" /\ txOp # "none") =>
        /\ SubSeq(txOut, 1, 3) =
              IF IsYtListPage(txIn) THEN <<"pageDetected", "playlist", "youtube">>
              ELSE IF OnPath(txIn, "musify.club/", <<"album/">>)
                THEN <<"pageDetected", "album", "musify">>
              ELSE IF OnPath(txIn, "musify.club/", <<"play", "list", "/">>)
                THEN <<"pageDetected", "playlist", "musify">>
              ELSE <<"pageNotDetected", "", "">>
        /\ txOp = "id" => txOut[4] # Null

\* the row whose iteration pushed capturedTracks[k]
CapturedRow(k) ==
    sqSeen[MinOf({j \in DOMAIN sqSeen : sqSeen[j].src = capturedTracks[k].location})].row

\* C30: the record that finish() leaves out is the record of row 1; every
\* record captured from a later row is exported, so a run that captured a
\* record from a later row exports a file.
C30_OnlyFirstRowDropped ==
    (script = "squidify" /\ sqPc = "done" /\ sqStatus # "ERROR") =>
        \A k \in DOMAIN capturedTracks :
            CapturedRow(k) > 1 =>
                /\ \E j \in DOMAIN sqFinal : sqFinal[j] = capturedTracks[k]
                /\ sqFile

\* the row clicked last
LastClicked == CHOOSE r \in sqArmed : \A q \in sqArmed : q <= r

\* the iteration of row r pushed a record
RowPushed(r) ==
    \E k \in DOMAIN sqSeen :
        /\ sqSeen[k].row = r
        /\ \A j \in 1..(k - 1) : sqSeen[j].src # sqSeen[k].src

\* run() has gone on after the wait of a row whose click left the source
\* as it was
ResumedWithKeptSrc ==
    script = "squidify" /\ sqPc \in {"loop", "done"} /\ sqSrcKept

BgReceives == bgInbox # <<>> /\ bgInbox' = Tail(bgInbox)

\* C21: the held detection state is the payload of the pageDetected
\* received last, or empty when the detection message received last was
\* pageNotDetected or none was received; no other message changes it, and
\* getTabStatus is answered valid exactly when the state is not empty.
C21_LastDetectionHeld ==
    /\ script = "background" => currentTabInfo = NoInfo
    /\ [][script = "background" =>
            IF BgReceives
              THEN LET request == Head(bgInbox)
                   IN /\ request.action = "pageDetected" =>
                            /\ currentTabInfo' # NoInfo
                            /\ currentTabInfo'.tabId = request.tabId
                            /\ currentTabInfo'.url = request.url
                            /\ currentTabInfo'.type = request.type
                            /\ currentTabInfo'.site = request.site
                      /\ request.action = "pageNotDetected" =>
                            currentTabInfo' = NoInfo
                      /\ request.action \notin {"pageDetected", "pageNotDetected"} =>
                            currentTabInfo' = currentTabInfo
                      /\ (request.action = "getTabStatus" /\ popupOpen) =>
                            popupInbox' = Append(popupInbox,
                                PopupMessage("tabStatus",
                                    IF currentTabInfo # NoInfo THEN "valid"
                                    ELSE "invalid"))
              ELSE currentTabInfo' = currentTabInfo]_vars

\* the state of tab 1 was replaced by that of tab 2, an exportPlaylist was
\* received after that, and the getTabStatus that followed is answered valid
C21_Witness ==
    /\ script = "background"
    /\ currentTabInfo.valid /\ currentTabInfo.tabId = 2
    /\ exports # <<>> /\ exports[1].info.tabId = 1
    /\ popupInbox = <<PopupMessage("tabStatus", "valid")>>

\* C22: every exportPlaylist the popup sends is followed by an
\* exportSuccess or an exportError that the popup receives.
C22_ExportAnswered == exporting ~> ~exporting

\* an export failed at the download
DownloadRejected(k) ==
    /\ k \in DOMAIN exports /\ exports[k].pc = "download"
    /\ bgInbox' = bgInbox
    /\ k \in DOMAIN exports' /\ exports'[k].pc = "failed"

\* C23: when the download is rejected, an exportError with the host's
\* message is sent to the popup and the held detection state stays as it
\* is; an exportPlaylist received while a state is held starts a new call
\* of handleExport, from its beginning, for the tab of that state.
C23_DownloadFailureReported ==
    /\ [][\A k \in DOMAIN exports :
            DownloadRejected(k) =>
                /\ currentTabInfo' = currentTabInfo
                /\ popupInbox' = Append(popupInbox,
                                    PopupMessage("exportError", HostMessage))]_vars
    /\ [][(script = "extension" /\ BgReceives
            /\ Head(bgInbox).action = "exportPlaylist" /\ currentTabInfo.valid) =>
                /\ exports' # <<>>
                /\ exports'[Len(exports')] =
                      [pc |-> "inject", info |-> currentTabInfo, title |-> <<>>,
                       ntracks |-> 0, filename |-> <<>>, answered |-> FALSE,
                       error |-> FALSE]]_vars

\* the popup shows the host's message of a rejected download, and the
\* export asked for after that runs for the tab whose state is held
C23_Witness ==
    /\ script = "extension"
    /\ errorMessage = HostMessage /\ exporting
    /\ Len(exports) = 1 /\ exports[1].pc = "extract"
    /\ exports[1].info = currentTabInfo

\* C27: while an exportPlaylist is unanswered the export button is
\* disabled.
C27_ButtonDisabledWhileExporting ==
    (script = "extension" /\ exporting) => exportBtnDisabled

\* the load listener of tab t has run for the page now open in it, the
\* page is a supported one, and the listener's message has been received
DetectionReceived(t) ==
    /\ ~tabLoading[t] /\ DetectPageType(tabUrl[t]) # NoType
    /\ \A k \in DOMAIN bgInbox : bgInbox[k].tabId # t

\* C28: the state recorded for a tab is not replaced or emptied by a
\* message of the other tab, so an export asked for while the tab shows a
\* supported page runs for that tab.
C28_TabsDoNotInterfere ==
    script = "tabs" =>
        \A t \in DOMAIN tabUrl :
            DetectionReceived(t) =>
                currentTabInfo.valid /\ currentTabInfo.tabId = t

====
